---- MODULE Spec2Model ----
(***************************************************************************)
(* Model of the NetworkingStack of aws-cdk-vpc (lib/networking-stack.ts):  *)
(* the address arithmetic (ipToNumber, numberToIp), the fixed /20 subnet   *)
(* allocation, and the constructor that builds the resource graph one     *)
(* construct at a time.                                                    *)
(*                                                                         *)
(* Strings are sequences of one-character strings, so that split, parseInt *)
(* and join are computed as JavaScript computes them.  JavaScript numbers  *)
(* are modelled exactly (they stay far below 2^53 here) as records         *)
(* [nan, hi, lo] of value hi * 65536 + lo with lo in 0..65535, since the   *)
(* values exceed the range of the model checker's integers.                *)
(***************************************************************************)
EXTENDS Integers, Sequences, FiniteSets

----------------------------------------------------------------------------
(* Strings *)

Digits == <<"0", "1", "2", "3", "4", "5", "6", "7", "8", "9">>

HexLower == Digits \o <<"a", "b", "c", "d", "e", "f">>

HexUpper == Digits \o <<"A", "B", "C", "D", "E", "F">>

\* The value undefined (a missing array element); `${undefined}` prints it.
Undefined == <<"undefined">>

\* String.prototype.split(sep) for a one-character separator: the pieces
\* between the separators, always at least one piece.
RECURSIVE SplitFrom(_, _, _)
SplitFrom(s, sep, cur) ==
    IF s = <<>> THEN <<cur>>
    ELSE IF Head(s) = sep THEN <<cur>> \o SplitFrom(Tail(s), sep, <<>>)
    ELSE SplitFrom(Tail(s), sep, Append(cur, Head(s)))

Split(s, sep) == SplitFrom(s, sep, <<>>)

\* Array.prototype.join(sep) on an array of strings.
RECURSIVE Join(_, _)
Join(parts, sep) ==
    IF parts = <<>> THEN <<>>
    ELSE IF Len(parts) = 1 THEN parts[1]
    ELSE parts[1] \o <<sep>> \o Join(Tail(parts), sep)

\* arr[i] of a JavaScript array (0-based): undefined past the end.
At(arr, i) == IF i + 1 \in DOMAIN arr THEN arr[i + 1] ELSE Undefined

\* Number.prototype.toString of a non-negative integer.
RECURSIVE NumberToString(_)
NumberToString(n) ==
    IF n < 10 THEN <<Digits[n + 1]>>
    ELSE NumberToString(n \div 10) \o <<Digits[(n % 10) + 1]>>

----------------------------------------------------------------------------
(* Numbers *)

Two16 == 256 * 256

NaN == [nan |-> TRUE, hi |-> 0, lo |-> 0]

Norm(hi, lo) == [nan |-> FALSE, hi |-> hi + (lo \div Two16), lo |-> lo % Two16]

\* The number of a (small) integer.
Num(v) == Norm(0, v)

\* a * k for a small non-negative integer k.
JsTimes(a, k) == IF a.nan THEN NaN ELSE Norm(a.hi * k, a.lo * k)

\* a + b.
JsPlus(a, b) == IF a.nan \/ b.nan THEN NaN ELSE Norm(a.hi + b.hi, a.lo + b.lo)

\* ToUint32: NaN becomes 0, every other integer is reduced modulo 2^32.
ToUint32(a) == IF a.nan THEN Num(0) ELSE [a EXCEPT !.hi = a.hi % Two16]

\* (num >>> shift) & 255 for shift in {24, 16, 8, 0}.
ShiftRightAnd255(num, shift) ==
    LET u == ToUint32(num) IN
    CASE shift = 24 -> u.hi \div 256
      [] shift = 16 -> u.hi % 256
      [] shift = 8  -> u.lo \div 256
      [] shift = 0  -> u.lo % 256

\* The digit value of character c in the given radix, or -1.
DigitValue(c, radix) ==
    IF \E i \in 1..radix : HexLower[i] = c \/ HexUpper[i] = c
    THEN (CHOOSE i \in 1..radix : HexLower[i] = c \/ HexUpper[i] = c) - 1
    ELSE -1

RECURSIVE StripLeadingSpace(_)
StripLeadingSpace(s) ==
    IF s # <<>> /\ Head(s) = " " THEN StripLeadingSpace(Tail(s)) ELSE s

\* The longest prefix of s made of digits of the radix: [n, v], the number of
\* digits read and their value.
RECURSIVE ReadDigits(_, _, _, _)
ReadDigits(s, radix, n, v) ==
    IF s = <<>> \/ DigitValue(Head(s), radix) = -1 THEN [n |-> n, v |-> v]
    ELSE ReadDigits(Tail(s), radix, n + 1, v * radix + DigitValue(Head(s), radix))

\* parseInt(string) with no radix: leading white space is skipped, a sign is
\* read, a 0x prefix selects radix 16, the longest digit prefix is the value
\* and what follows it is ignored; no digit at all gives NaN.
parseInt(str) ==
    LET s0    == StripLeadingSpace(str)
        neg   == s0 # <<>> /\ Head(s0) = "-"
        s1    == IF s0 # <<>> /\ Head(s0) \in {"+", "-"} THEN Tail(s0) ELSE s0
        hex   == Len(s1) >= 2 /\ s1[1] = "0" /\ s1[2] \in {"x", "X"}
        s2    == IF hex THEN Tail(Tail(s1)) ELSE s1
        radix == IF hex THEN 16 ELSE 10
        r     == ReadDigits(s2, radix, 0, 0)
    IN  IF r.n = 0 THEN NaN
        ELSE IF neg THEN Num(0 - r.v) ELSE Num(r.v)

----------------------------------------------------------------------------
(* Address arithmetic *)

\* ip.split('.').reduce((acc, octet) => acc * 256 + parseInt(octet), 0)
RECURSIVE Reduce(_, _)
Reduce(octets, acc) ==
    IF octets = <<>> THEN acc
    ELSE Reduce(Tail(octets), JsPlus(JsTimes(acc, 256), parseInt(Head(octets))))

ipToNumber(ip) == Reduce(Split(ip, "."), Num(0))

\* A faulty variant: the third octet shifted by 16 as the second.
numberToIp_ShiftCopied(num) ==
    Join(<<NumberToString(ShiftRightAnd255(num, 24)),
           NumberToString(ShiftRightAnd255(num, 16)),
           NumberToString(ShiftRightAnd255(num, 16)),
           NumberToString(ShiftRightAnd255(num, 0))>>, ".")

numberToIp(num) ==
    Join(<<NumberToString(ShiftRightAnd255(num, 24)),
           NumberToString(ShiftRightAnd255(num, 16)),
           NumberToString(ShiftRightAnd255(num, 8)),
           NumberToString(ShiftRightAnd255(num, 0))>>, ".")

----------------------------------------------------------------------------
(* calculateFixedSubnetAllocation *)

subnetSize == 4096

Sixteen == <<"1", "6">>

SlashTwenty == <<"/", "2", "0">>

\* this.subnetAllocation before it is assigned.
NoAllocation == [assigned |-> FALSE, web |-> <<>>, app |-> <<>>, data |-> <<>>]

\* One of the three loops: for (let i = from; i < to; i++) push
\* numberToIp(vpcBaseIp + i * subnetSize) + "/20".
SubnetLoop(vpcBaseIp, from, to) ==
    [k \in 1..(to - from) |->
        numberToIp(JsPlus(vpcBaseIp, Num((from + k - 1) * subnetSize)))
            \o SlashTwenty]

\* The result is [threw, got, value]: threw with the prefix it got, or the
\* allocation.
calculateFixedSubnetAllocation(vpcCidr) ==
    LET vpcNetwork == At(Split(vpcCidr, "/"), 0)
        vpcPrefix  == At(Split(vpcCidr, "/"), 1)
        vpcBaseIp  == ipToNumber(vpcNetwork)
    IN  IF vpcPrefix # Sixteen
        THEN [threw |-> TRUE, got |-> vpcPrefix, value |-> NoAllocation]
        ELSE [threw |-> FALSE, got |-> vpcPrefix,
              value |-> [assigned |-> TRUE,
                         web  |-> SubnetLoop(vpcBaseIp, 0, 2),
                         app  |-> SubnetLoop(vpcBaseIp, 2, 4),
                         data |-> SubnetLoop(vpcBaseIp, 4, 6)]]

----------------------------------------------------------------------------
(* Inputs *)

\* Account lists are drawn up to this length.
MaxAccounts == 2

\* Stack.availabilityZones holds at least two zones (two tokens for the
\* environment-agnostic stack that bin/aws-cdk-vpc.ts creates, the zones of the
\* region otherwise); the lists are drawn up to this length.
MaxAzs == 3

AccountIds == {"111111111111", "222222222222"}

ZoneNames == <<"zone-a", "zone-b", "zone-c", "zone-d", "zone-e">>

\* Canonical octets: the first of a public, a private and the highest range;
\* third octets below, at and above the last position at which six /20
\* blocks still fit in the /16.
FirstOctets == {<<"1", "0">>, <<"1", "9", "2">>, <<"2", "5", "5">>}

SecondOctets == {<<"1", "0">>, <<"2", "5", "5">>}

ThirdOctets == {<<"0">>, <<"1", "6">>, <<"1", "6", "0">>, <<"2", "4", "0">>}

FourthOctets == {<<"0">>, <<"5">>}

\* Octets that are not canonical decimal numerals of 0..255.
OddOctets == {<<"0", "1", "0">>, <<"3", "0", "0">>, <<"x">>, <<>>, <<"0", "x", "1", "f">>, <<"-", "1">>, <<" ", "7">>, <<"7", "z">>}

Networks ==
    {Join(<<a, b, c, d>>, ".") :
        a \in FirstOctets, b \in SecondOctets, c \in ThirdOctets, d \in FourthOctets}
    \cup {Join(<<a, <<"1", "0">>, c, <<"0">>>>, ".") : a \in OddOctets, c \in {<<"0">>, <<"2", "4", "0">>}}
    \cup {Join(<<<<"1", "0">>, <<"1", "0">>, a, <<"0">>>>, ".") : a \in OddOctets}
    \cup {Join(<<<<"1", "0">>, <<"1", "0">>, <<"0">>>>, "."),
          Join(<<<<"1", "0">>, <<"1", "0">>, <<"0">>, <<"0">>, <<"0">>>>, "."),
          <<>>}

\* What follows the network in the CIDR string: nothing, a prefix of 16, other
\* prefixes.
PrefixParts == {<<>>, <<"/", "1", "6">>, <<"/", "2", "4">>, <<"/", "0", "1", "6">>, <<"/">>}

\* A second slash: split('/')[1] is still 16.
TwoSlashes == {<<"1", "0", ".", "1", "0", ".", "0", ".", "0", "/", "1", "6", "/", "8">>, <<"1", "0", ".", "1", "0", ".", "0", ".", "0", "/", "2", "4", "/", "1", "6">>}

Cidrs == {n \o p : n \in Networks, p \in PrefixParts} \cup TwoSlashes

RECURSIVE SeqsUpTo(_, _)
SeqsUpTo(S, n) ==
    IF n = 0 THEN {<<>>}
    ELSE SeqsUpTo(S, n - 1)
         \cup {Append(s, x) : s \in {t \in SeqsUpTo(S, n - 1) : Len(t) = n - 1}, x \in S}

\* config.accounts is optional: undefined, or a list of account ids.
AccountLists == {Undefined} \cup SeqsUpTo(AccountIds, MaxAccounts)


----------------------------------------------------------------------------
(* The constructor of NetworkingStack *)

VARIABLES
    pc,                 \* the statement of the constructor that runs next
    index,              \* the index of the running azs.forEach callback
    config,             \* props.config: [cidr, accounts]
    availabilityZones,  \* cdk.Stack.of(this).availabilityZones
    error,              \* the Error the constructor threw
    subnetAllocation,   \* this.subnetAllocation
    azs,                \* the local azs
    children,           \* the constructs created in the stack, by id
    subnetsArray,       \* webSubnetsArray, appSubnetsArray, dataSubnetsArray
    stackSubnets        \* this.webSubnets, this.appSubnets, this.dataSubnets

vars == <<pc, index, config, availabilityZones, error, subnetAllocation, azs,
          children, subnetsArray, stackSubnets>>

Tiers == <<"web", "app", "data">>

TierSet == {"web", "app", "data"}

NoError == [thrown |-> FALSE, by |-> "", got |-> <<>>]

NoChildren == [id \in {} |-> [type |-> ""]]

EmptyArrays == [web |-> <<>>, app |-> <<>>, data |-> <<>>]

\* A faulty variant: the app route is created before the NAT instance.
Program_NatRouteBeforeInstance ==
    <<"ValidatePrefix", "Allocate", "VPC", "InternetGateway", "IGWAttachment",
      "WebRouteTable", "AppRouteTable", "DataRouteTable", "Azs",
      "WebSubnets", "AppSubnets", "DataSubnets",
      "WebSubnetRefs", "AppSubnetRefs", "DataSubnetRefs",
      "WebInternetRoute", "NatSG", "NatInstanceRole", "AppNatRoute",
      "NatInstance", "S3Endpoint", "DynamoDbEndpoint", "SubnetResourceShare">>

\* The statements of the constructor in the order it runs them.
Program ==
    <<"ValidatePrefix", "Allocate", "VPC", "InternetGateway", "IGWAttachment",
      "WebRouteTable", "AppRouteTable", "DataRouteTable", "Azs",
      "WebSubnets", "AppSubnets", "DataSubnets",
      "WebSubnetRefs", "AppSubnetRefs", "DataSubnetRefs",
      "WebInternetRoute", "NatSG", "NatInstanceRole", "NatInstance",
      "AppNatRoute", "S3Endpoint", "DynamoDbEndpoint", "SubnetResourceShare">>

\* The statement after the one labelled l.
After(l) ==
    LET i == CHOOSE j \in DOMAIN Program : Program[j] = l
    IN  IF i = Len(Program) THEN "Done" ELSE Program[i + 1]

RouteTableId == [web |-> "WebRouteTable", app |-> "AppRouteTable", data |-> "DataRouteTable"]

SubnetLoopLabel == [web |-> "WebSubnets", app |-> "AppSubnets", data |-> "DataSubnets"]

SubnetRefsLabel == [web |-> "WebSubnetRefs", app |-> "AppSubnetRefs", data |-> "DataSubnetRefs"]

\* `WebSubnet${index}`, `WebSubnetRTA${index}`, `WebSubnetRef${index}`: the
\* construct ids are kept as <<name, index>>.
SubnetId(tier, i) ==
    <<[web |-> "WebSubnet", app |-> "AppSubnet", data |-> "DataSubnet"][tier], i>>

SubnetRTAId(tier, i) ==
    <<[web |-> "WebSubnetRTA", app |-> "AppSubnetRTA", data |-> "DataSubnetRTA"][tier], i>>

SubnetRefId(tier, i) ==
    <<[web |-> "WebSubnetRef", app |-> "AppSubnetRef", data |-> "DataSubnetRef"][tier], i>>

\* The id of a construct that is created once.
Id(name) == <<name, 0>>

\* x.ref, x.vpcId, x.instanceId of the construct created under the id: the
\* reference to it, undefined when no such construct has been created.
Ref(id) == IF id \in DOMAIN children THEN id ELSE Id("undefined")

\* new X(this, id, props)
AddChild(id, props) ==
    [x \in DOMAIN children \cup {id} |-> IF x = id THEN props ELSE children[x]]

Init ==
    /\ pc = Program[1]
    /\ index = 0
    /\ config \in [cidr : Cidrs, accounts : AccountLists]
    /\ availabilityZones \in {SubSeq(ZoneNames, 1, n) : n \in 2..MaxAzs}
    /\ error = NoError
    /\ subnetAllocation = NoAllocation
    /\ azs = <<>>
    /\ children = NoChildren
    /\ subnetsArray = EmptyArrays
    /\ stackSubnets = EmptyArrays

\* throw new Error(...)
Throw(by, got) ==
    /\ pc' = "Failed"
    /\ error' = [thrown |-> TRUE, by |-> by, got |-> got]

\* A statement that creates one construct and goes on.
Create(label, id, props) ==
    /\ pc = label
    /\ pc' = After(label)
    /\ children' = AddChild(id, props)
    /\ UNCHANGED <<index, config, availabilityZones, error, subnetAllocation,
                   azs, subnetsArray, stackSubnets>>

\* A faulty variant: the constructor does not test the prefix.
ValidatePrefix_Skipped ==
    /\ pc = "ValidatePrefix"
    /\ pc' = After("ValidatePrefix")
    /\ UNCHANGED <<index, config, availabilityZones, error, subnetAllocation,
                   azs, children, subnetsArray, stackSubnets>>

\* const vpcPrefix = props.config.cidr.split('/')[1]; if (vpcPrefix !== '16') throw
ValidatePrefix ==
    /\ pc = "ValidatePrefix"
    /\ LET vpcPrefix == At(Split(config.cidr, "/"), 1)
       IN  IF vpcPrefix # Sixteen
           THEN Throw("constructor", vpcPrefix)
           ELSE pc' = After("ValidatePrefix") /\ error' = error
    /\ UNCHANGED <<index, config, availabilityZones, subnetAllocation, azs,
                   children, subnetsArray, stackSubnets>>

Allocate ==
    /\ pc = "Allocate"
    /\ LET allocation == calculateFixedSubnetAllocation(config.cidr)
       IN  IF allocation.threw
           THEN /\ Throw("calculateFixedSubnetAllocation", allocation.got)
                /\ subnetAllocation' = subnetAllocation
           ELSE /\ pc' = After("Allocate")
                /\ error' = error
                /\ subnetAllocation' = allocation.value
    /\ UNCHANGED <<index, config, availabilityZones, azs, children,
                   subnetsArray, stackSubnets>>

\* The constructs of aws-cdk-lib are taken to accept the props they are given:
\* what the library itself would reject is outside src/.
VpcProps ==
    [type |-> "Vpc", cidr |-> config.cidr, maxAzs |-> 2,
     subnetConfiguration |-> <<>>, enableDnsHostnames |-> TRUE]

CreateVpc == Create("VPC", Id("VPC"), VpcProps)

CreateInternetGateway ==
    Create("InternetGateway", Id("InternetGateway"), [type |-> "CfnInternetGateway"])

IGWAttachmentProps ==
    [type |-> "CfnVPCGatewayAttachment", vpcId |-> Ref(Id("VPC")),
     internetGatewayId |-> Ref(Id("InternetGateway"))]

CreateIGWAttachment == Create("IGWAttachment", Id("IGWAttachment"), IGWAttachmentProps)

RouteTableProps == [type |-> "CfnRouteTable", vpcId |-> Ref(Id("VPC"))]

CreateRouteTable(tier) ==
    Create(RouteTableId[tier], Id(RouteTableId[tier]), RouteTableProps)

\* const azs = cdk.Stack.of(this).availabilityZones.slice(0, 2)
Slice02(arr) == SubSeq(arr, 1, IF Len(arr) < 2 THEN Len(arr) ELSE 2)

GetAzs ==
    /\ pc = "Azs"
    /\ pc' = After("Azs")
    /\ azs' = Slice02(availabilityZones)
    /\ UNCHANGED <<index, config, availabilityZones, error, subnetAllocation,
                   children, subnetsArray, stackSubnets>>

\* A faulty variant: public in every tier.
MapPublicIpOnLaunch_EveryTier(tier) == tier \in TierSet

\* mapPublicIpOnLaunch is given (true) for the web subnets only.
MapPublicIpOnLaunch(tier) == tier = "web"

SubnetProps(tier, i) ==
    [type |-> "CfnSubnet", vpcId |-> Ref(Id("VPC")),
     cidrBlock |-> At(subnetAllocation[tier], i),
     availabilityZone |-> At(azs, i),
     mapPublicIpOnLaunch |-> MapPublicIpOnLaunch(tier)]

SubnetRTAProps(tier, i) ==
    [type |-> "CfnSubnetRouteTableAssociation",
     subnetId |-> Ref(SubnetId(tier, i)),
     routeTableId |-> Ref(Id(RouteTableId[tier]))]

\* The first statement of the forEach callback: new ec2.CfnSubnet.
CreateSubnet(tier) ==
    /\ pc = SubnetLoopLabel[tier]
    /\ index < Len(azs)
    /\ SubnetId(tier, index) \notin DOMAIN children
    /\ children' = AddChild(SubnetId(tier, index), SubnetProps(tier, index))
    /\ UNCHANGED <<pc, index, config, availabilityZones, error, subnetAllocation,
                   azs, subnetsArray, stackSubnets>>

\* The rest of the callback: the association and the push.
AssociateSubnet(tier) ==
    /\ pc = SubnetLoopLabel[tier]
    /\ index < Len(azs)
    /\ SubnetId(tier, index) \in DOMAIN children
    /\ children' = AddChild(SubnetRTAId(tier, index), SubnetRTAProps(tier, index))
    /\ subnetsArray' =
          [subnetsArray EXCEPT ![tier] = Append(@, SubnetId(tier, index))]
    /\ index' = index + 1
    /\ UNCHANGED <<pc, config, availabilityZones, error, subnetAllocation, azs,
                   stackSubnets>>

\* forEach has visited every zone.
EndSubnetLoop(tier) ==
    /\ pc = SubnetLoopLabel[tier]
    /\ index >= Len(azs)
    /\ pc' = After(SubnetLoopLabel[tier])
    /\ index' = 0
    /\ UNCHANGED <<config, availabilityZones, error, subnetAllocation, azs,
                   children, subnetsArray, stackSubnets>>

SubnetRefProps(tier, i) ==
    [type |-> "ImportedSubnet",
     subnetId |-> Ref(At(subnetsArray[tier], i)),
     availabilityZone |-> At(azs, i),
     routeTableId |-> Ref(Id(RouteTableId[tier]))]

\* this.webSubnets = webSubnetsArray.map((subnet, index) =>
\*     ec2.Subnet.fromSubnetAttributes(this, `WebSubnetRef${index}`, ...))
ImportSubnets(tier) ==
    /\ pc = SubnetRefsLabel[tier]
    /\ pc' = After(SubnetRefsLabel[tier])
    /\ LET n == Len(subnetsArray[tier]) IN
        /\ children' =
              [x \in DOMAIN children \cup {SubnetRefId(tier, i) : i \in 0..(n - 1)} |->
                  IF x \in DOMAIN children THEN children[x]
                  ELSE SubnetRefProps(tier, x[2])]
        /\ stackSubnets' =
              [stackSubnets EXCEPT ![tier] = [k \in 1..n |-> SubnetRefId(tier, k - 1)]]
    /\ UNCHANGED <<index, config, availabilityZones, error, subnetAllocation,
                   azs, subnetsArray>>

Absent == Id("absent")

WebInternetRouteProps ==
    [type |-> "CfnRoute", routeTableId |-> Ref(Id("WebRouteTable")),
     destinationCidrBlock |-> "0.0.0.0/0",
     gatewayId |-> Ref(Id("InternetGateway")), instanceId |-> Absent]

CreateWebInternetRoute ==
    Create("WebInternetRoute", Id("WebInternetRoute"), WebInternetRouteProps)

NatSGProps ==
    [type |-> "SecurityGroup", vpc |-> Ref(Id("VPC")), allowAllOutbound |-> TRUE,
     ingress |-> <<[peer |-> Ref(Id("VPC")), port |-> "allTraffic"]>>]

CreateNatSG == Create("NatSG", Id("NatSG"), NatSGProps)

NatInstanceRoleProps ==
    [type |-> "Role", assumedBy |-> "ec2.amazonaws.com",
     managedPolicies |-> <<"AmazonSSMManagedInstanceCore">>]

CreateNatInstanceRole ==
    Create("NatInstanceRole", Id("NatInstanceRole"), NatInstanceRoleProps)

\* vpcSubnets: { subnets: [this.webSubnets[0]] }
NatInstanceProps ==
    [type |-> "Instance", vpc |-> Ref(Id("VPC")),
     instanceType |-> "t4g.nano", securityGroup |-> Ref(Id("NatSG")),
     subnets |-> <<Ref(At(stackSubnets.web, 0))>>,
     role |-> Ref(Id("NatInstanceRole")),
     sourceDestCheck |-> FALSE, userData |-> "nat-bootstrap"]

CreateNatInstance == Create("NatInstance", Id("NatInstance"), NatInstanceProps)

\* A faulty variant: the NAT route on the data route table.
AppNatRouteProps_OnDataTable ==
    [type |-> "CfnRoute", routeTableId |-> Ref(Id("DataRouteTable")),
     destinationCidrBlock |-> "0.0.0.0/0",
     gatewayId |-> Absent, instanceId |-> Ref(Id("NatInstance"))]

AppNatRouteProps ==
    [type |-> "CfnRoute", routeTableId |-> Ref(Id("AppRouteTable")),
     destinationCidrBlock |-> "0.0.0.0/0",
     gatewayId |-> Absent, instanceId |-> Ref(Id("NatInstance"))]

CreateAppNatRoute == Create("AppNatRoute", Id("AppNatRoute"), AppNatRouteProps)

\* A faulty variant: the endpoints on the data route table too.
EndpointRouteTableIds_WithData ==
    <<Ref(Id("AppRouteTable")), Ref(Id("DataRouteTable"))>>

EndpointRouteTableIds == <<Ref(Id("AppRouteTable"))>>

EndpointProps(service) ==
    [type |-> "CfnVPCEndpoint", vpcId |-> Ref(Id("VPC")), serviceName |-> service,
     vpcEndpointType |-> "Gateway", routeTableIds |-> EndpointRouteTableIds]

CreateS3Endpoint == Create("S3Endpoint", Id("S3Endpoint"), EndpointProps("s3"))

CreateDynamoDbEndpoint ==
    Create("DynamoDbEndpoint", Id("DynamoDbEndpoint"), EndpointProps("dynamodb"))

\* arr.map(subnet => `arn:...:subnet/${subnet.ref}`)
Arns(arr) == [k \in DOMAIN arr |-> Ref(arr[k])]

SubnetArns ==
    Arns(subnetsArray.web) \o Arns(subnetsArray.app) \o Arns(subnetsArray.data)

\* A faulty variant: the length is not tested.
AccountsGiven_NoLengthTest == config.accounts # Undefined

\* props.config.accounts && props.config.accounts.length > 0
AccountsGiven == config.accounts # Undefined /\ Len(config.accounts) > 0

SubnetResourceShareProps ==
    [type |-> "CfnResourceShare", resourceArns |-> SubnetArns,
     principals |-> config.accounts, allowExternalPrincipals |-> FALSE]

ShareSubnets ==
    /\ pc = "SubnetResourceShare"
    /\ pc' = After("SubnetResourceShare")
    /\ children' =
          IF AccountsGiven
          THEN AddChild(Id("SubnetResourceShare"), SubnetResourceShareProps)
          ELSE children
    /\ UNCHANGED <<index, config, availabilityZones, error, subnetAllocation,
                   azs, subnetsArray, stackSubnets>>

Next ==
    \/ ValidatePrefix
    \/ Allocate
    \/ CreateVpc
    \/ CreateInternetGateway
    \/ CreateIGWAttachment
    \/ \E tier \in TierSet : CreateRouteTable(tier)
    \/ GetAzs
    \/ \E tier \in TierSet : CreateSubnet(tier)
    \/ \E tier \in TierSet : AssociateSubnet(tier)
    \/ \E tier \in TierSet : EndSubnetLoop(tier)
    \/ \E tier \in TierSet : ImportSubnets(tier)
    \/ CreateWebInternetRoute
    \/ CreateNatSG
    \/ CreateNatInstanceRole
    \/ CreateNatInstance
    \/ CreateAppNatRoute
    \/ CreateS3Endpoint
    \/ CreateDynamoDbEndpoint
    \/ ShareSubnets

Spec == Init /\ [][Next]_vars

----------------------------------------------------------------------------
(* What the properties speak of *)

Network == At(Split(config.cidr, "/"), 0)

Prefix == At(Split(config.cidr, "/"), 1)

IsDecimal(s) == s # <<>> /\ \A i \in DOMAIN s : \E d \in DOMAIN Digits : Digits[d] = s[i]

RECURSIVE DecimalValue(_, _)
DecimalValue(s, acc) ==
    IF s = <<>> THEN acc
    ELSE DecimalValue(Tail(s), acc * 10 + ((CHOOSE d \in DOMAIN Digits : Digits[d] = Head(s)) - 1))

\* A decimal numeral of an integer in 0..255.
ValidOctet(s) == IsDecimal(s) /\ Len(s) <= 6 /\ DecimalValue(s, 0) <= 255

\* The same, written without leading zeros.
CanonicalOctet(s) == ValidOctet(s) /\ (Len(s) = 1 \/ s[1] # "0")

ValidQuad(ip) ==
    LET p == Split(ip, ".") IN Len(p) = 4 /\ \A i \in 1..4 : ValidOctet(p[i])

CanonicalQuad(ip) ==
    LET p == Split(ip, ".") IN Len(p) = 4 /\ \A i \in 1..4 : CanonicalOctet(p[i])

\* The 32-bit value of a valid dotted quad.
QuadNumber(ip) ==
    LET p == Split(ip, ".")
    IN  [nan |-> FALSE,
         hi  |-> DecimalValue(p[1], 0) * 256 + DecimalValue(p[2], 0),
         lo  |-> DecimalValue(p[3], 0) * 256 + DecimalValue(p[4], 0)]

LessEq(a, b) == a.hi < b.hi \/ (a.hi = b.hi /\ a.lo <= b.lo)

\* The six blocks of the allocation in tier order, zone order.
Blocks == subnetAllocation.web \o subnetAllocation.app \o subnetAllocation.data

BlockAddress(b) == At(Split(b, "/"), 0)

BlockPrefix(b) == At(Split(b, "/"), 1)

\* A block text that names a /20 whose address is a valid dotted quad.
IsSlash20(b) ==
    /\ Len(Split(b, "/")) = 2
    /\ BlockPrefix(b) = <<"2", "0">>
    /\ ValidQuad(BlockAddress(b))

BlockStart(b) == QuadNumber(BlockAddress(b))

BlockEnd(b) == Norm(BlockStart(b).hi, BlockStart(b).lo + 4096)

ChildrenOfType(t) == {id \in DOMAIN children : children[id].type = t}

Range(f) == {f[x] : x \in DOMAIN f}

\* The constructs a construct refers to.
RefsOf(p) ==
    CASE p.type = "CfnVPCGatewayAttachment" -> {p.vpcId, p.internetGatewayId}
      [] p.type = "CfnRouteTable" -> {p.vpcId}
      [] p.type = "CfnSubnet" -> {p.vpcId}
      [] p.type = "CfnSubnetRouteTableAssociation" -> {p.subnetId, p.routeTableId}
      [] p.type = "ImportedSubnet" -> {p.subnetId, p.routeTableId}
      [] p.type = "CfnRoute" -> {p.routeTableId} \cup ({p.gatewayId, p.instanceId} \ {Absent})
      [] p.type = "SecurityGroup" -> {p.vpc} \cup {p.ingress[i].peer : i \in DOMAIN p.ingress}
      [] p.type = "Instance" -> {p.vpc, p.securityGroup, p.role} \cup Range(p.subnets)
      [] p.type = "CfnVPCEndpoint" -> {p.vpcId} \cup Range(p.routeTableIds)
      [] p.type = "CfnResourceShare" -> Range(p.resourceArns)
      [] OTHER -> {}

AllSubnetIds == {SubnetId(tier, i) : tier \in TierSet, i \in 0..1}

\* The default routes of a route table.
DefaultRoutes(rt) ==
    {id \in ChildrenOfType("CfnRoute") :
        /\ children[id].routeTableId = Id(rt)
        /\ children[id].destinationCidrBlock = "0.0.0.0/0"}

----------------------------------------------------------------------------
(* Properties *)

\* C1: for every top-level block that passes the prefix check (and whose
\* address is a valid dotted quad), the block of tier k (web, app, data) and
\* zone z is the /20 whose base address is base + (2k + z) * 4096, base being
\* the address of the input.
C1_SequentialBlocks ==
    (subnetAllocation.assigned /\ ValidQuad(Network)) =>
        /\ Len(Blocks) = 6
        /\ \A k \in 0..2, z \in 0..1 :
              LET b == At(subnetAllocation[Tiers[k + 1]], z) IN
              /\ IsSlash20(b)
              /\ BlockStart(b) =
                    Norm(QuadNumber(Network).hi,
                         QuadNumber(Network).lo + (2 * k + z) * 4096)

\* C1 on the blocks whose address is the network address of the /16 (the
\* README's 10.10.0.0/16 among them): there the blocks are as claimed.
C1_SequentialBlocksOfNetworkAddress ==
    (subnetAllocation.assigned /\ ValidQuad(Network) /\ QuadNumber(Network).lo = 0) =>
        C1_SequentialBlocks

\* C2: for every accepted top-level block (prefix 16, a valid dotted quad)
\* the allocation is exactly 6 /20 blocks, pairwise disjoint, each inside the
\* address range of the /16, together occupying [base, base + 24576).
C2_DisjointInsideTopLevel ==
    (subnetAllocation.assigned /\ ValidQuad(Network)) =>
        LET base == QuadNumber(Network)
            top  == [base EXCEPT !.lo = 0]
        IN  /\ Len(Blocks) = 6
            /\ \A i \in 1..6 : IsSlash20(Blocks[i])
            /\ \A i \in 1..6, j \in 1..6 :
                  i # j => \/ LessEq(BlockEnd(Blocks[i]), BlockStart(Blocks[j]))
                           \/ LessEq(BlockEnd(Blocks[j]), BlockStart(Blocks[i]))
            /\ \A i \in 1..6 :
                  /\ LessEq(top, BlockStart(Blocks[i]))
                  /\ LessEq(BlockEnd(Blocks[i]), Norm(top.hi + 1, 0))
            /\ \A i \in 1..6 :
                  /\ LessEq(base, BlockStart(Blocks[i]))
                  /\ LessEq(BlockEnd(Blocks[i]), Norm(base.hi, base.lo + 24576))

\* C3: a prefix other than 16 makes the constructor fail with the error that
\* carries the prefix, before the allocation is computed and before any
\* construct is created.
C3_InvalidPrefixFailsFirst ==
    Prefix # Sixteen =>
        /\ pc \in {"ValidatePrefix", "Failed"}
        /\ ~subnetAllocation.assigned
        /\ children = NoChildren
        /\ pc = "Failed" => error = [thrown |-> TRUE, by |-> "constructor", got |-> Prefix]

C3_Witness ==
    /\ config.cidr = <<"1", "0", ".", "1", "0", ".", "0", ".", "0", "/", "2", "4">>
    /\ pc = "Failed"
    /\ error.got = <<"2", "4">>

\* C4: an address that does not have exactly 4 parts, or has a part that is
\* not an integer in [0, 255], makes ipToNumber fail, so that no allocation
\* is ever produced for it.
C4_MalformedAddressFails ==
    ~ValidQuad(Network) => ~subnetAllocation.assigned /\ pc # "Done"

\* C5 as stated: for every valid dotted quad x (four decimal octets in
\* [0, 255]) numberToIp(ipToNumber(x)) = x; the first web block is
\* numberToIp(ipToNumber(x) + 0 * 4096) followed by /20.
C5_RoundTripOfEveryValidQuad ==
    (subnetAllocation.assigned /\ ValidQuad(Network)) =>
        At(subnetAllocation.web, 0) = Network \o SlashTwenty

\* C5 as amended: for every dotted quad x of four decimal octets in [0, 255]
\* written without leading zeros, numberToIp(ipToNumber(x)) = x and
\* ipToNumber(x) is the integer in [0, 2^32 - 1] the quad denotes; and for
\* every valid quad, every number base + i * 4096 below 2^32 is printed as
\* the canonical dotted quad of that number.
C5_RoundTripOfCanonicalQuad ==
    /\ (subnetAllocation.assigned /\ CanonicalQuad(Network)) =>
          /\ At(subnetAllocation.web, 0) = Network \o SlashTwenty
          /\ ipToNumber(Network) = QuadNumber(Network)
          /\ ipToNumber(Network).hi \in 0..(Two16 - 1)
          /\ ipToNumber(Network).lo \in 0..(Two16 - 1)
    /\ (subnetAllocation.assigned /\ ValidQuad(Network)) =>
          \A i \in 1..6 :
              LET n == Norm(QuadNumber(Network).hi,
                            QuadNumber(Network).lo + (i - 1) * 4096)
              IN  n.hi < Two16 =>
                    /\ CanonicalQuad(BlockAddress(Blocks[i]))
                    /\ BlockStart(Blocks[i]) = n

C5_Witness ==
    /\ subnetAllocation.assigned
    /\ config.cidr = <<"2", "5", "5", ".", "2", "5", "5", ".", "0", ".", "0", "/", "1", "6">>

\* C6: in the finished graph the web route table has exactly one default
\* route, to the internet gateway; the app route table exactly one, to the
\* NAT instance; the data route table none.
C6_DefaultRoutes ==
    pc = "Done" =>
        /\ DefaultRoutes("WebRouteTable") = {Id("WebInternetRoute")}
        /\ children[Id("WebInternetRoute")].gatewayId = Id("InternetGateway")
        /\ children[Id("WebInternetRoute")].instanceId = Absent
        /\ children[Id("InternetGateway")].type = "CfnInternetGateway"
        /\ DefaultRoutes("AppRouteTable") = {Id("AppNatRoute")}
        /\ children[Id("AppNatRoute")].instanceId = Id("NatInstance")
        /\ children[Id("AppNatRoute")].gatewayId = Absent
        /\ children[Id("NatInstance")].type = "Instance"
        /\ DefaultRoutes("DataRouteTable") = {}

C6_Witness ==
    /\ pc = "Done"
    /\ {Id("WebInternetRoute"), Id("AppNatRoute")} \subseteq ChildrenOfType("CfnRoute")

\* C7: with no or an empty account list no resource share is created and the
\* constructor still completes; with a non-empty list exactly one share is
\* created, of the 6 created subnets, one entry each, to exactly the
\* configured accounts, with external principals not allowed.
C7_SharingPlan ==
    /\ (Prefix = Sixteen) => pc # "Failed"
    /\ pc = "Done" =>
          IF config.accounts = Undefined \/ config.accounts = <<>>
          THEN ChildrenOfType("CfnResourceShare") = {}
          ELSE /\ ChildrenOfType("CfnResourceShare") = {Id("SubnetResourceShare")}
               /\ LET share == children[Id("SubnetResourceShare")] IN
                  /\ Len(share.resourceArns) = 6
                  /\ Range(share.resourceArns) = AllSubnetIds
                  /\ Range(share.resourceArns) = ChildrenOfType("CfnSubnet")
                  /\ share.principals = config.accounts
                  /\ share.allowExternalPrincipals = FALSE

C7_Witness ==
    /\ pc = "Done"
    /\ config.accounts # Undefined
    /\ Len(config.accounts) = 2
    /\ Id("SubnetResourceShare") \in DOMAIN children

C7_WitnessNoAccounts ==
    /\ pc = "Done"
    /\ config.accounts = <<>>

\* C8: at every step, every construct that a created construct refers to was
\* created before it (the VPC for the gateway attachment, the subnet and the
\* route table for an association, the gateway for the web route, the web
\* subnet of index 0 for the NAT instance, the NAT instance and the app route
\* table for the app route, the app route table for the endpoints, the 6
\* subnets for the share), and the allocation is computed before the first
\* construct is created.
C8_ConstructionOrder ==
    /\ \A id \in DOMAIN children : RefsOf(children[id]) \subseteq DOMAIN children \ {id}
    /\ children # NoChildren => subnetAllocation.assigned
    /\ Id("NatInstance") \in DOMAIN children =>
          /\ children[Id("NatInstance")].subnets = <<SubnetRefId("web", 0)>>
          /\ children[SubnetRefId("web", 0)].subnetId = SubnetId("web", 0)
    /\ Id("SubnetResourceShare") \in DOMAIN children =>
          Range(children[Id("SubnetResourceShare")].resourceArns) = AllSubnetIds

C8_Witness ==
    /\ pc = "Done"
    /\ Id("SubnetResourceShare") \in DOMAIN children
    /\ Id("NatInstance") \in DOMAIN children
    /\ Id("IGWAttachment") \in DOMAIN children

\* C9: for every (tier, zone index) of the allocation exactly one subnet is
\* created, with the block allocation[tier][index] in the zone at that
\* position; it is public exactly if its tier is web, and it is associated
\* with exactly one route table, that of its tier; there are exactly 3 route
\* tables, one per tier.
C9_SubnetsAndRouteTables ==
    pc = "Done" =>
        /\ ChildrenOfType("CfnSubnet") = AllSubnetIds
        /\ Cardinality(AllSubnetIds) = 6
        /\ \A tier \in TierSet :
              /\ Len(subnetAllocation[tier]) = 2
              /\ \A i \in 0..1 :
                    LET subnet == children[SubnetId(tier, i)] IN
                    /\ subnet.cidrBlock = subnetAllocation[tier][i + 1]
                    /\ subnet.availabilityZone = availabilityZones[i + 1]
                    /\ subnet.mapPublicIpOnLaunch <=> tier = "web"
                    /\ {a \in ChildrenOfType("CfnSubnetRouteTableAssociation") :
                            children[a].subnetId = SubnetId(tier, i)}
                          = {SubnetRTAId(tier, i)}
                    /\ children[SubnetRTAId(tier, i)].routeTableId = Id(RouteTableId[tier])
        /\ ChildrenOfType("CfnRouteTable") = {Id(RouteTableId[tier]) : tier \in TierSet}
        /\ Cardinality(ChildrenOfType("CfnRouteTable")) = 3

C9_Witness ==
    /\ pc = "Done"
    /\ Len(availabilityZones) = 3
    /\ Cardinality(ChildrenOfType("CfnSubnet")) = 6
    /\ Cardinality(ChildrenOfType("CfnSubnetRouteTableAssociation")) = 6

\* C10: in the finished graph there are exactly two service endpoints, one
\* per service, each attached to the app route table and to no other, and
\* the data route table has no route of any kind.
C10_Endpoints ==
    pc = "Done" =>
        /\ ChildrenOfType("CfnVPCEndpoint") = {Id("S3Endpoint"), Id("DynamoDbEndpoint")}
        /\ children[Id("S3Endpoint")].serviceName = "s3"
        /\ children[Id("DynamoDbEndpoint")].serviceName = "dynamodb"
        /\ \A e \in ChildrenOfType("CfnVPCEndpoint") :
              children[e].routeTableIds = <<Id("AppRouteTable")>>
        /\ \A r \in ChildrenOfType("CfnRoute") :
              children[r].routeTableId # Id("DataRouteTable")
        /\ children[Id("AppRouteTable")].type = "CfnRouteTable"

C10_Witness ==
    /\ pc = "Done"
    /\ {Id("S3Endpoint"), Id("DynamoDbEndpoint")} \subseteq DOMAIN children

====
